---- MODULE Spec2Model ----
(***************************************************************************)
(* Model of the two algorithms of embient-cli:                             *)
(*   - the risk-based position sizing calculator                           *)
(*     (embient/trading_tools/signals/position_sizing.py), and             *)
(*   - the non-interactive HITL auto-approval loop                         *)
(*     (embient/non_interactive.py).                                       *)
(***************************************************************************)
EXTENDS Integers, Sequences, FiniteSets, TLC

(***************************************************************************)
(* Exact numbers.  Python floats are modelled by exact rationals written   *)
(* as i + n/d with 0 <= n < d and gcd(n, d) = 1, so that a value with      *)
(* eight decimals stays inside the model checker's integers.  The absent   *)
(* value None is the record whose d is 0.                                  *)
(***************************************************************************)
RECURSIVE Gcd(_, _)
Gcd(a, b) == IF b = 0 THEN a ELSE Gcd(b, a % b)

Num(i, n, d) ==
    LET r == n % d
        g == Gcd(d, r)
    IN  [i |-> i + (n \div d), n |-> r \div g, d |-> d \div g]

FromInt(k) == [i |-> k, n |-> 0, d |-> 1]

Frac(a, b) == Num(0, a, b)

None == [i |-> 0, n |-> 0, d |-> 0]

Zero == FromInt(0)

One == FromInt(1)

Add(a, b) ==
    LET l == (a.d \div Gcd(a.d, b.d)) * b.d
    IN  Num(a.i + b.i, a.n * (l \div a.d) + b.n * (l \div b.d), l)

Neg(a) == Num(-a.i, -a.n, a.d)

Sub(a, b) == Add(a, Neg(b))

Lt(a, b) == a.i < b.i \/ (a.i = b.i /\ a.n * b.d < b.n * a.d)

Le(a, b) == ~Lt(b, a)

Abs(a) == IF Lt(a, Zero) THEN Neg(a) ELSE a

Max(a, b) == IF Lt(a, b) THEN b ELSE a

Mul(a, b) ==
    Add(Add(FromInt(a.i * b.i), Num(0, a.i * b.n, b.d)),
        Add(Num(0, b.i * a.n, a.d), Num(0, a.n * b.n, a.d * b.d)))

\* a / b for b # 0, through the improper fractions of both
Div(a, b) ==
    LET x == a.i * a.d + a.n
        y == b.i * b.d + b.n
    IN  IF y > 0 THEN Num(0, x * b.d, a.d * y)
                 ELSE Num(0, -(x * b.d), -(a.d * y))

RECURSIVE Pow10(_)
Pow10(k) == IF k = 0 THEN 1 ELSE 10 * Pow10(k - 1)

\* <<floor(r/d * 10^k), remainder>> by long division, for 0 <= r < d
RECURSIVE LongDiv(_, _, _, _)
LongDiv(r, d, k, acc) ==
    IF k = 0 THEN <<acc, r>>
    ELSE LongDiv((r * 10) % d, d, k - 1, acc * 10 + ((r * 10) \div d))

(***************************************************************************)
(* round(x, ndigits) of Python, for x >= 0: the nearest multiple of        *)
(* 10^-ndigits.  A value exactly half way between two multiples is decided *)
(* by the binary double that stands for it, which lies on either side of   *)
(* the decimal tie; tie_up says on which side.                             *)
(***************************************************************************)
round(x, ndigits, tie_up) ==
    LET ld   == LongDiv(x.n, x.d, ndigits, 0)
        acc  == ld[1]
        rem  == ld[2]
        up   == 2 * rem > x.d \/ (2 * rem = x.d /\ tie_up)
    IN  Num(x.i, acc + (IF up THEN 1 ELSE 0), Pow10(ndigits))

(***************************************************************************)
(* Strings are sequences of one-character strings.                         *)
(***************************************************************************)
UpperMap ==
    [a |-> "A", b |-> "B", c |-> "C", d |-> "D", e |-> "E", f |-> "F", g |-> "G",
     h |-> "H", i |-> "I", j |-> "J", k |-> "K", l |-> "L", m |-> "M", n |-> "N",
     o |-> "O", p |-> "P", q |-> "Q", r |-> "R", s |-> "S", t |-> "T", u |-> "U",
     v |-> "V", w |-> "W", x |-> "X", y |-> "Y", z |-> "Z"]

\* str.upper()
upper(s) == [k \in 1..Len(s) |-> IF s[k] \in DOMAIN UpperMap THEN UpperMap[s[k]] ELSE s[k]]

\* sub in s
Contains(sub, s) ==
    \E k \in 0..(Len(s) - Len(sub)) : SubSeq(s, k + 1, k + Len(sub)) = sub

CryptoTickers ==
    << <<"B", "T", "C">>, <<"E", "T", "H">>, <<"U", "S", "D", "T">>,
       <<"U", "S", "D", "C">>, <<"B", "N", "B">>, <<"S", "O", "L">>,
       <<"A", "D", "A">>, <<"X", "R", "P">>, <<"/">> >>

CryptoDecimals == 8

FractionalShareDecimals == 2

WholeShareDecimals == 0

\* the ticker test without the upper-casing of the symbol
IsCrypto_CaseSensitive(symbol) ==
    \E k \in 1..Len(CryptoTickers) : Contains(CryptoTickers[k], symbol)

IsCrypto(symbol) ==
    \E k \in 1..Len(CryptoTickers) : Contains(CryptoTickers[k], upper(symbol))

_round_quantity(quantity, symbol, tie_up) ==
    IF IsCrypto(symbol) THEN round(quantity, CryptoDecimals, tie_up)
    ELSE IF Lt(quantity, One) THEN round(quantity, FractionalShareDecimals, tie_up)
    ELSE round(quantity, WholeShareDecimals, tie_up)

(***************************************************************************)
(* calculate_position_sizing.  A user profile is a function from a subset  *)
(* of its keys to numbers; None and {} are both the empty function.        *)
(***************************************************************************)
Get(profile, key, default) == IF key \in DOMAIN profile THEN profile[key] ELSE default

DefaultMaxLeverage == 5

DefaultPositionSize == 2

Percent == 100

NoResult == [capital_allocated |-> None, leverage |-> None, quantity |-> None,
             raw_quantity |-> None]

\* the fallback of line 82 testing for None only
RiskPercent_NoneOnly(user_profile, position_size_percent) ==
    IF position_size_percent = None
    THEN Get(user_profile, "default_position_size", FromInt(DefaultPositionSize))
    ELSE position_size_percent

\* the risk percent used: lines 81-83
RiskPercent(user_profile, position_size_percent) ==
    IF position_size_percent = None \/ Le(position_size_percent, Zero)
    THEN Get(user_profile, "default_position_size", FromInt(DefaultPositionSize))
    ELSE position_size_percent

\* Steps 1-4 only: the leverage cap of Step 5 left out
SizingLocals_NoCap(available_balance, max_leverage, risk_percent, entry_price, price_diff) ==
    LET risk_amount    == Mul(available_balance, Div(risk_percent, FromInt(Percent)))
        quantity       == Div(risk_amount, price_diff)
        notional_value == Mul(quantity, entry_price)
        leverage       == Max(One, Div(notional_value, available_balance))
    IN  [quantity |-> quantity, notional_value |-> notional_value, leverage |-> leverage]

\* Step 5 capping the leverage but leaving the risk-derived quantity
SizingLocals_StaleQuantity(available_balance, max_leverage, risk_percent, entry_price, price_diff) ==
    LET risk_amount    == Mul(available_balance, Div(risk_percent, FromInt(Percent)))
        quantity       == Div(risk_amount, price_diff)
        notional_value == Mul(quantity, entry_price)
        leverage       == Max(One, Div(notional_value, available_balance))
    IN  [quantity |-> quantity, notional_value |-> notional_value,
         leverage |-> IF Lt(max_leverage, leverage) THEN max_leverage ELSE leverage]

\* Step 4 without the minimum of 1.0
SizingLocals_NoFloor(available_balance, max_leverage, risk_percent, entry_price, price_diff) ==
    LET risk_amount    == Mul(available_balance, Div(risk_percent, FromInt(Percent)))
        quantity       == Div(risk_amount, price_diff)
        notional_value == Mul(quantity, entry_price)
        leverage       == Div(notional_value, available_balance)
    IN  IF Lt(max_leverage, leverage)
        THEN LET max_notional == Mul(available_balance, max_leverage)
             IN  [quantity |-> Div(max_notional, entry_price),
                  notional_value |-> max_notional,
                  leverage |-> max_leverage]
        ELSE [quantity |-> quantity, notional_value |-> notional_value,
              leverage |-> leverage]

\* Step 4 scaling the quantity up to the balance when it floors the leverage
SizingLocals_ScaledToFloor(available_balance, max_leverage, risk_percent, entry_price, price_diff) ==
    LET risk_amount    == Mul(available_balance, Div(risk_percent, FromInt(Percent)))
        quantity       == Div(risk_amount, price_diff)
        notional_value == Mul(quantity, entry_price)
        leverage       == Max(One, Div(notional_value, available_balance))
    IN  IF Lt(max_leverage, leverage)
        THEN LET max_notional == Mul(available_balance, max_leverage)
             IN  [quantity |-> Div(max_notional, entry_price),
                  notional_value |-> max_notional,
                  leverage |-> max_leverage]
        ELSE IF Lt(notional_value, available_balance)
        THEN [quantity |-> Div(available_balance, entry_price),
              notional_value |-> available_balance,
              leverage |-> leverage]
        ELSE [quantity |-> quantity, notional_value |-> notional_value,
              leverage |-> leverage]

\* Steps 1-5: the locals quantity, notional_value and leverage before rounding
SizingLocals(available_balance, max_leverage, risk_percent, entry_price, price_diff) ==
    LET risk_amount    == Mul(available_balance, Div(risk_percent, FromInt(Percent)))
        quantity       == Div(risk_amount, price_diff)
        notional_value == Mul(quantity, entry_price)
        leverage       == Max(One, Div(notional_value, available_balance))
    IN  IF Lt(max_leverage, leverage)
        THEN LET max_notional == Mul(available_balance, max_leverage)
             IN  [quantity |-> Div(max_notional, entry_price),
                  notional_value |-> max_notional,
                  leverage |-> max_leverage]
        ELSE [quantity |-> quantity, notional_value |-> notional_value,
              leverage |-> leverage]

\* Step 7 left out: the capital is the notional value before rounding
SizingResult_NotionalCapital(locals, entry_price, symbol, tie_up) ==
    [capital_allocated |-> locals.notional_value,
     leverage |-> locals.leverage,
     quantity |-> _round_quantity(locals.quantity, symbol, tie_up),
     raw_quantity |-> locals.quantity]

\* Steps 6-7: round the quantity, recompute the capital from the rounded one
SizingResult(locals, entry_price, symbol, tie_up) ==
    LET quantity == _round_quantity(locals.quantity, symbol, tie_up)
    IN  [capital_allocated |-> Mul(quantity, entry_price),
         leverage |-> locals.leverage,
         quantity |-> quantity,
         raw_quantity |-> locals.quantity]

\* the validation of line 71 testing the entry price only
calculate_position_sizing_NoStopCheck(user_profile, entry_price, stop_loss, position_size_percent, symbol, tie_up) ==
    IF DOMAIN user_profile = {} THEN NoResult
    ELSE IF Le(entry_price, Zero) THEN NoResult
    ELSE LET available_balance == Get(user_profile, "available_balance", Zero)
         IN  IF Le(available_balance, Zero) THEN NoResult
             ELSE LET max_leverage == Get(user_profile, "max_leverage",
                                          FromInt(DefaultMaxLeverage))
                      price_diff   == Abs(Sub(entry_price, stop_loss))
                  IN  IF price_diff = Zero THEN NoResult
                      ELSE SizingResult(
                               SizingLocals(available_balance, max_leverage,
                                   RiskPercent(user_profile, position_size_percent),
                                   entry_price, price_diff),
                               entry_price, symbol, tie_up)

calculate_position_sizing(user_profile, entry_price, stop_loss, position_size_percent, symbol, tie_up) ==
    IF DOMAIN user_profile = {} THEN NoResult
    ELSE IF Le(entry_price, Zero) \/ Le(stop_loss, Zero) THEN NoResult
    ELSE LET available_balance == Get(user_profile, "available_balance", Zero)
         IN  IF Le(available_balance, Zero) THEN NoResult
             ELSE LET max_leverage == Get(user_profile, "max_leverage",
                                          FromInt(DefaultMaxLeverage))
                      price_diff   == Abs(Sub(entry_price, stop_loss))
                  IN  IF price_diff = Zero THEN NoResult
                      ELSE SizingResult(
                               SizingLocals(available_balance, max_leverage,
                                   RiskPercent(user_profile, position_size_percent),
                                   entry_price, price_diff),
                               entry_price, symbol, tie_up)

(***************************************************************************)
(* The calculate_position_size tool around it.  token_present is whether   *)
(* get_jwt_token() returns a token, context_profile the value of           *)
(* get_user_profile(), fetched the answer of the profile API.  The result  *)
(* is <<outcome, profile left in the context>>.                            *)
(***************************************************************************)
ToolIdle == [status |-> "idle", message |-> "", quantity |-> None, leverage |-> None,
             capital_allocated |-> None, risk_amount |-> None]

ToolException(message) == [ToolIdle EXCEPT !.status = "ToolException", !.message = message]

\* "{x:.2f}": x printed with two decimals
Format2f(x, fmt_up) ==
    IF Lt(x, Zero) THEN Neg(round(Neg(x), FractionalShareDecimals, fmt_up))
    ELSE round(x, FractionalShareDecimals, fmt_up)

\* lines 194-212: the report
ToolReport(profile, position_size_percent, result, fmt_up) ==
    LET available_balance  == Get(profile, "available_balance", Zero)
        default_size       == Get(profile, "default_position_size",
                                  FromInt(DefaultPositionSize))
        position_size_used == IF position_size_percent = None \/ position_size_percent = Zero
                              THEN default_size ELSE position_size_percent
        risk_amount        == Mul(available_balance, Div(position_size_used, FromInt(Percent)))
    IN  [status |-> "ok", message |-> "Position Sizing",
         quantity |-> result.quantity,
         leverage |-> Format2f(result.leverage, fmt_up),
         capital_allocated |-> Format2f(result.capital_allocated, fmt_up),
         risk_amount |-> Format2f(risk_amount, fmt_up)]

calculate_position_size(token_present, context_profile, fetched, symbol, entry_price, stop_loss, position_size_percent, tie_up, fmt_up) ==
    IF ~token_present THEN <<ToolException("Not authenticated"), context_profile>>
    ELSE IF DOMAIN context_profile = {} /\ DOMAIN fetched = {}
    THEN <<ToolException("Could not fetch user profile"), context_profile>>
    ELSE LET profile == IF DOMAIN context_profile = {} THEN fetched ELSE context_profile
             result  == calculate_position_sizing(profile, entry_price, stop_loss,
                            position_size_percent, symbol, tie_up)
         IN  IF result.capital_allocated = None \/ result.leverage = None
                \/ result.quantity = None
             THEN <<ToolException("Position sizing calculation failed"), profile>>
             ELSE <<ToolReport(profile, position_size_percent, result, fmt_up), profile>>

(***************************************************************************)
(* Inputs of the calculator.                                               *)
(***************************************************************************)
MaxPrice == 3

MaxBalance == 3

Prices == {FromInt(k) : k \in -1..MaxPrice}

PercentChoices == {None, FromInt(-1), Zero, FromInt(40), FromInt(Percent)}

AAPL == <<"A", "A", "P", "L">>

BTC_USDT == <<"B", "T", "C", "/", "U", "S", "D", "T">>

ethusd == <<"e", "t", "h", "u", "s", "d">>

EUR_GBP == <<"E", "U", "R", "/", "G", "B", "P">>

Symbols == {<<>>, AAPL, BTC_USDT, ethusd, EUR_GBP}

ProfileKeys == {"available_balance", "max_leverage", "default_position_size"}

MkProfile(balance, max_leverage, default_position_size) ==
    LET all  == [available_balance |-> balance, max_leverage |-> max_leverage,
                 default_position_size |-> default_position_size]
        keys == {k \in ProfileKeys : all[k] # None}
    IN  [k \in keys |-> all[k]]

NoProfile == MkProfile(None, None, None)

Profiles ==
    {MkProfile(b, m, p) : b \in {None} \cup {FromInt(k) : k \in 0..MaxBalance},
                          m \in {None, Frac(1, 2), One, FromInt(2)},
                          p \in {None, FromInt(50)}}

FetchedProfiles == {NoProfile, MkProfile(FromInt(MaxBalance), FromInt(2), None)}

GridArgs ==
    [entry_price : Prices, stop_loss : Prices,
     position_size_percent : PercentChoices, symbol : Symbols]

\* Scenario A and Scenario B of the specification, and the 12.7 shares of P3
ScenarioA ==
    <<[entry_price |-> FromInt(100), stop_loss |-> FromInt(95),
       position_size_percent |-> FromInt(2), symbol |-> BTC_USDT],
      MkProfile(FromInt(10000), FromInt(5), None)>>

ScenarioB ==
    <<[entry_price |-> FromInt(100), stop_loss |-> FromInt(99),
       position_size_percent |-> FromInt(10), symbol |-> AAPL],
      MkProfile(FromInt(1000), FromInt(3), None)>>

ScenarioShares ==
    <<[entry_price |-> FromInt(11), stop_loss |-> FromInt(10),
       position_size_percent |-> FromInt(10), symbol |-> AAPL],
      MkProfile(FromInt(127), FromInt(5), None)>>

Scenarios == {ScenarioA, ScenarioB, ScenarioShares}

(***************************************************************************)
(* The non-interactive loop (embient/non_interactive.py).                  *)
(*                                                                         *)
(* A world w is the StreamState of the run together with the two sinks:    *)
(* w.state (the StreamState), w.stdout (the writes of _write_text and      *)
(* _write_newline), w.console (the lines printed on the console: tool      *)
(* notices and final status) and w.auto_approved (the names announced by   *)
(* the latest round of auto-approval).                                     *)
(***************************************************************************)
_MAX_HITL_ITERATIONS == 50

_STREAM_CHUNK_LENGTH == 3

_MESSAGE_DATA_LENGTH == 2

EmptyMap == <<>>

\* StreamState(quiet=quiet)
StreamState(quiet) ==
    [quiet |-> quiet, full_response |-> <<>>, tool_call_buffers |-> EmptyMap,
     pending_interrupts |-> EmptyMap, hitl_response |-> EmptyMap,
     interrupt_occurred |-> FALSE]

NewWorld(quiet) ==
    [state |-> StreamState(quiet), stdout |-> <<>>, console |-> <<>>,
     auto_approved |-> <<>>]

\* d[key] = value
Put(d, key, value) == (key :> value) @@ d

Reject == [type |-> "reject", message |-> "Malformed interrupt"]

Approve == [type |-> "approve", message |-> ""]

\* the continue of line 82 left out: a malformed interrupt is rejected and then
\* recorded as pending as well
ProcessInterrupt_NoContinue(interrupt_obj, w) ==
    LET rejected == IF interrupt_obj.valid THEN w
                    ELSE [w EXCEPT !.state.hitl_response =
                             Put(@, interrupt_obj.id, [decisions |-> <<Reject>>])]
    IN  [rejected EXCEPT !.state.pending_interrupts =
                             Put(@, interrupt_obj.id, interrupt_obj.action_requests),
                         !.state.interrupt_occurred = TRUE]

\* line 84 left out: a valid request is recorded without raising the flag
ProcessInterrupt_NoFlag(interrupt_obj, w) ==
    IF ~interrupt_obj.valid
    THEN [w EXCEPT !.state.hitl_response =
                       Put(@, interrupt_obj.id, [decisions |-> <<Reject>>])]
    ELSE [w EXCEPT !.state.pending_interrupts =
                       Put(@, interrupt_obj.id, interrupt_obj.action_requests)]

\* one Interrupt of data["__interrupt__"]: validated, or rejected as malformed
ProcessInterrupt(interrupt_obj, w) ==
    IF ~interrupt_obj.valid
    THEN [w EXCEPT !.state.hitl_response =
                       Put(@, interrupt_obj.id, [decisions |-> <<Reject>>])]
    ELSE [w EXCEPT !.state.pending_interrupts =
                       Put(@, interrupt_obj.id, interrupt_obj.action_requests),
                   !.state.interrupt_occurred = TRUE]

RECURSIVE ProcessInterruptsFrom(_, _, _)
ProcessInterruptsFrom(interrupts, k, w) ==
    IF k > Len(interrupts) THEN w
    ELSE ProcessInterruptsFrom(interrupts, k + 1, ProcessInterrupt(interrupts[k], w))

_process_interrupts(data, w) == ProcessInterruptsFrom(data.interrupts, 1, w)

\* the key a tool-call block is buffered under: its index, else its id, else unknown-N
BufferKey(block, tool_call_buffers) ==
    IF block.has_index THEN [tag |-> "index", n |-> block.index, s |-> ""]
    ELSE IF block.has_id THEN [tag |-> "id", n |-> 0, s |-> block.id]
    ELSE [tag |-> "unknown", n |-> Cardinality(DOMAIN tool_call_buffers), s |-> ""]

\* the text accumulated without being written to stdout
ProcessTextBlock_NoWrite(block, w) ==
    IF block.text = "" THEN w
    ELSE [w EXCEPT !.state.full_response = Append(@, block.text)]

\* lines 99-103
ProcessTextBlock(block, w) ==
    IF block.text = "" THEN w
    ELSE [w EXCEPT !.stdout = Append(@, block.text),
                   !.state.full_response = Append(@, block.text)]

\* the separator newline of lines 119-120 written in quiet mode as well
ProcessToolCallBlock_AlwaysSeparator(block, w) ==
    LET buffer_key == BufferKey(block, w.state.tool_call_buffers)
        buffers    == IF buffer_key \in DOMAIN w.state.tool_call_buffers
                      THEN w.state.tool_call_buffers
                      ELSE Put(w.state.tool_call_buffers, buffer_key,
                               [name |-> "", id |-> ""])
    IN  IF block.name = ""
        THEN [w EXCEPT !.state.tool_call_buffers = buffers]
        ELSE [w EXCEPT !.state.tool_call_buffers =
                           [buffers EXCEPT ![buffer_key].name = block.name],
                       !.stdout = IF w.state.full_response # <<>>
                                  THEN Append(@, "\n") ELSE @,
                       !.console = Append(@, <<"Calling tool", block.name>>)]

\* lines 104-121; a name of "" is no name
ProcessToolCallBlock(block, w) ==
    LET buffer_key == BufferKey(block, w.state.tool_call_buffers)
        buffers    == IF buffer_key \in DOMAIN w.state.tool_call_buffers
                      THEN w.state.tool_call_buffers
                      ELSE Put(w.state.tool_call_buffers, buffer_key,
                               [name |-> "", id |-> ""])
    IN  IF block.name = ""
        THEN [w EXCEPT !.state.tool_call_buffers = buffers]
        ELSE [w EXCEPT !.state.tool_call_buffers =
                           [buffers EXCEPT ![buffer_key].name = block.name],
                       !.stdout = IF w.state.full_response # <<>> /\ ~w.state.quiet
                                  THEN Append(@, "\n") ELSE @,
                       !.console = Append(@, <<"Calling tool", block.name>>)]

ProcessBlock(block, w) ==
    IF ~block.is_dict THEN w
    ELSE IF block.type = "text" THEN ProcessTextBlock(block, w)
    ELSE IF block.type \in {"tool_call_chunk", "tool_call"} THEN ProcessToolCallBlock(block, w)
    ELSE w

RECURSIVE ProcessBlocksFrom(_, _, _)
ProcessBlocksFrom(blocks, k, w) ==
    IF k > Len(blocks) THEN w
    ELSE ProcessBlocksFrom(blocks, k + 1, ProcessBlock(blocks[k], w))

_process_ai_message(message_obj, w) ==
    IF ~message_obj.has_content_blocks THEN w
    ELSE ProcessBlocksFrom(message_obj.content_blocks, 1, w)

(***************************************************************************)
(* A chunk of the stream: chunk.length is its length as a tuple (0 when it *)
(* is no tuple), chunk.namespace the path of the subagent it comes from,   *)
(* chunk.data the payload, of which only the fields of its kind matter.    *)
(***************************************************************************)
_process_stream_chunk_NoNamespaceCheck(chunk, w) ==
    IF chunk.length # _STREAM_CHUNK_LENGTH THEN w
    ELSE IF chunk.stream_mode = "updates" /\ chunk.data.is_dict /\ chunk.data.has_interrupt
    THEN _process_interrupts(chunk.data, w)
    ELSE IF chunk.stream_mode = "messages"
    THEN IF chunk.data.length # _MESSAGE_DATA_LENGTH THEN w
         ELSE IF chunk.data.lc_source = "summarization" THEN w
         ELSE IF chunk.data.message.is_ai THEN _process_ai_message(chunk.data.message, w)
         ELSE w
    ELSE w

_process_stream_chunk(chunk, w) ==
    IF chunk.length # _STREAM_CHUNK_LENGTH THEN w
    ELSE IF chunk.namespace # <<>> THEN w
    ELSE IF chunk.stream_mode = "updates" /\ chunk.data.is_dict /\ chunk.data.has_interrupt
    THEN _process_interrupts(chunk.data, w)
    ELSE IF chunk.stream_mode = "messages"
    THEN IF chunk.data.length # _MESSAGE_DATA_LENGTH THEN w
         ELSE IF chunk.data.lc_source = "summarization" THEN w
         ELSE IF chunk.data.message.is_ai THEN _process_ai_message(chunk.data.message, w)
         ELSE w
    ELSE w

\* the ids of a dictionary of interrupts in the order they were inserted
RECURSIVE InsertionOrder(_)
InsertionOrder(ids) ==
    IF ids = {} THEN <<>>
    ELSE LET first == CHOOSE x \in ids : \A y \in ids : x[2] <= y[2]
         IN  <<first>> \o InsertionOrder(ids \ {first})

RECURSIVE Concat(_)
Concat(seqs) == IF seqs = <<>> THEN <<>> ELSE Head(seqs) \o Concat(Tail(seqs))

\* one decision for the whole request
ApproveAll_Once(hitl_request) == <<Approve>>

\* one {"type": "approve"} per action request
ApproveAll(hitl_request) == [k \in 1..Len(hitl_request) |-> Approve]

\* the pending set not cleared after it is copied
_process_hitl_interrupts_KeepPending(w) ==
    LET current_interrupts == w.state.pending_interrupts
        order              == InsertionOrder(DOMAIN current_interrupts)
        answered           == [id \in DOMAIN current_interrupts |->
                                  [decisions |-> ApproveAll(current_interrupts[id])]]
    IN  [w EXCEPT !.state.hitl_response = answered @@ @,
                  !.auto_approved =
                      @ \o Concat([k \in 1..Len(order) |-> current_interrupts[order[k]]])]

_process_hitl_interrupts(w) ==
    LET current_interrupts == w.state.pending_interrupts
        order              == InsertionOrder(DOMAIN current_interrupts)
        answered           == [id \in DOMAIN current_interrupts |->
                                  [decisions |-> ApproveAll(current_interrupts[id])]]
    IN  [w EXCEPT !.state.pending_interrupts = EmptyMap,
                  !.state.hitl_response = answered @@ @,
                  !.auto_approved =
                      @ \o Concat([k \in 1..Len(order) |-> current_interrupts[order[k]]])]

\* the ceiling tested with >=
CeilingExceeded_AtCeiling(iterations) == iterations >= _MAX_HITL_ITERATIONS

\* the ceiling tested one round late
CeilingExceeded_OffByOne(iterations) == iterations > _MAX_HITL_ITERATIONS + 1

\* iterations > _MAX_HITL_ITERATIONS
CeilingExceeded(iterations) == iterations > _MAX_HITL_ITERATIONS

\* the transcript cleared with the rest of the state
PrepareResume_ClearTranscript(w) ==
    _process_hitl_interrupts(
        [w EXCEPT !.state.interrupt_occurred = FALSE,
                  !.state.hitl_response = EmptyMap,
                  !.state.full_response = <<>>,
                  !.auto_approved = <<>>])

\* lines 205-208: the decision batch of the next resume is built
PrepareResume(w) ==
    _process_hitl_interrupts(
        [w EXCEPT !.state.interrupt_occurred = FALSE,
                  !.state.hitl_response = EmptyMap,
                  !.auto_approved = <<>>])

\* lines 211-216
Complete(w) ==
    [w EXCEPT !.stdout = IF w.state.full_response # <<>> THEN Append(@, "\n") ELSE @,
              !.console = IF w.state.quiet THEN @ ELSE Append(@, <<"Task completed", "">>)]

\* every exception but the keyboard interrupt reported as success
ExitCode_InterruptOnly(exception) == IF exception = "KeyboardInterrupt" THEN 130 ELSE 0

\* line 241: the stream the console of the run prints to
ConsoleStream(quiet) == IF quiet THEN "stderr" ELSE "stdout"

\* run_non_interactive, lines 286-296: the exit code for an exception
ExitCode(exception) == IF exception = "KeyboardInterrupt" THEN 130 ELSE 1

Failed(w, exception) ==
    [w EXCEPT !.console =
         Append(@, IF exception = "KeyboardInterrupt" THEN <<"Interrupted", "">>
                   ELSE IF exception \in {"ValueError", "OSError"}
                   THEN <<"Error", exception>>
                   ELSE <<"Unexpected error", exception>>)]

(***************************************************************************)
(* What the executor can stream.                                           *)
(***************************************************************************)
MaxInterrupts == 2

MaxMessages == 1

NoBlock == [is_dict |-> FALSE, type |-> "", text |-> "", name |-> "",
            has_index |-> FALSE, index |-> 0, has_id |-> FALSE, id |-> ""]

TextBlock(text) == [NoBlock EXCEPT !.is_dict = TRUE, !.type = "text", !.text = text]

ToolBlock(type, name, has_index, has_id) ==
    [NoBlock EXCEPT !.is_dict = TRUE, !.type = type, !.name = name,
                    !.has_index = has_index, !.has_id = has_id,
                    !.id = IF has_id THEN "call_1" ELSE ""]

Blocks ==
    {NoBlock, [NoBlock EXCEPT !.is_dict = TRUE, !.type = "reasoning"]}
    \cup {TextBlock(t) : t \in {"", "Checking price... ", "Done."}}
    \cup {ToolBlock(ty, nm, hi, hd) : ty \in {"tool_call_chunk", "tool_call"},
                                      nm \in {"", "get_latest_candle"},
                                      hi \in BOOLEAN, hd \in BOOLEAN}

NoMessage == [is_ai |-> FALSE, has_content_blocks |-> FALSE, content_blocks |-> <<>>]

AIMessage(blocks) ==
    [is_ai |-> TRUE, has_content_blocks |-> TRUE, content_blocks |-> blocks]

NoData == [is_dict |-> FALSE, has_interrupt |-> FALSE, interrupts |-> <<>>,
           length |-> 0, message |-> NoMessage, lc_source |-> ""]

UpdatesData(interrupts) ==
    [NoData EXCEPT !.is_dict = TRUE, !.has_interrupt = TRUE, !.interrupts = interrupts]

MessagesData(message, lc_source) ==
    [NoData EXCEPT !.length = _MESSAGE_DATA_LENGTH, !.message = message,
                   !.lc_source = lc_source]

Chunk(namespace, stream_mode, data) ==
    [length |-> _STREAM_CHUNK_LENGTH, namespace |-> namespace,
     stream_mode |-> stream_mode, data |-> data]

\* the actions the executor asks approval for
ProposedActions == <<"create_trading_signal", "write_file", "update_trading_signal">>

\* the payload of the interrupt of a given rank in its stream: malformed, or a
\* HITLRequest, which here has two action requests at an odd rank and one at an even
Payload(valid, rank) ==
    [valid |-> valid,
     action_requests |-> IF ~valid THEN <<>>
                         ELSE IF rank % 2 = 1 THEN SubSeq(ProposedActions, 1, 2)
                         ELSE SubSeq(ProposedActions, 3, 3)]

\* whether each interrupt of a chunk is valid
ValidityLists == {<<>>} \cup {<<p>> : p \in BOOLEAN} \cup {<<p, q>> : p, q \in BOOLEAN}

\* the Interrupt objects of a chunk: the executor gives each a fresh id, here the
\* number of the stream and the rank of the interrupt in it
Interrupts(validity, stream, rank) ==
    [k \in 1..Len(validity) |->
        [id |-> <<stream, rank + k>>, valid |-> validity[k],
         action_requests |-> Payload(validity[k], rank + k).action_requests]]

\* chunks _process_stream_chunk skips
SkippedChunks ==
    {Chunk(<<>>, "messages",
           MessagesData(AIMessage(<<TextBlock("Done.")>>), "summarization")),
     Chunk(<<>>, "messages", MessagesData(NoMessage, "")),
     Chunk(<<>>, "messages",
           MessagesData([AIMessage(<<>>) EXCEPT !.has_content_blocks = FALSE], "")),
     Chunk(<<>>, "messages", NoData),
     Chunk(<<"tools:1">>, "messages", MessagesData(AIMessage(<<TextBlock("Done.")>>), "")),
     Chunk(<<>>, "updates", [NoData EXCEPT !.is_dict = TRUE]),
     Chunk(<<>>, "values", [NoData EXCEPT !.is_dict = TRUE]),
     [Chunk(<<>>, "messages", NoData) EXCEPT !.length = 2]}

\* the message chunks of a run that answers in one fragment
PlainChunks ==
    SkippedChunks
    \cup {Chunk(<<>>, "messages", MessagesData(AIMessage(<<TextBlock(t)>>), "")) :
              t \in {"", "Done."}}

MessageChunks ==
    SkippedChunks
    \cup {Chunk(<<>>, "messages", MessagesData(AIMessage(<<b>>), "")) : b \in Blocks}
    \cup {Chunk(<<>>, "messages",
                MessagesData(AIMessage(<<TextBlock("Done."),
                    ToolBlock("tool_call", "get_latest_candle", FALSE, TRUE)>>), ""))}

Exceptions == {"OSError", "KeyboardInterrupt"}

\* the chunks of a run that answers in two fragments around a tool call
TranscriptChunks ==
    SkippedChunks
    \cup {Chunk(<<>>, "messages", MessagesData(AIMessage(<<TextBlock(t)>>), "")) :
              t \in {"", "Checking price... ", "Done."}}
    \cup {Chunk(<<>>, "messages", MessagesData(AIMessage(<<b>>), "")) :
              b \in {ToolBlock("tool_call_chunk", "get_latest_candle", TRUE, TRUE),
                     ToolBlock("tool_call_chunk", "", TRUE, FALSE),
                     ToolBlock("tool_call", "get_latest_candle", FALSE, FALSE)}}

\* whether a chunk is a message of the top-level run, as the executor sends it
IsTopLevelMessage(chunk) ==
    /\ chunk.length = _STREAM_CHUNK_LENGTH
    /\ chunk.namespace = <<>>
    /\ chunk.stream_mode = "messages"
    /\ chunk.data.length = _MESSAGE_DATA_LENGTH
    /\ chunk.data.lc_source # "summarization"
    /\ chunk.data.message.is_ai
    /\ chunk.data.message.has_content_blocks

\* the non-empty text fragments a chunk carries for the top-level run
TextFragments(chunk) ==
    IF ~IsTopLevelMessage(chunk) THEN <<>>
    ELSE LET texts == SelectSeq(chunk.data.message.content_blocks,
                                LAMBDA b : b.is_dict /\ b.type = "text" /\ b.text # "")
         IN  [k \in 1..Len(texts) |-> texts[k].text]

\* an executor stream is opened by agent.astream and is outstanding until the
\* async for of _stream_agent has run it to its end
Opened(open, stream) == open \cup {stream}

\* no stream is ever taken to be drained
Drained_Never(open, stream) == open

Drained(open, stream) == open \ {stream}

(***************************************************************************)
(* Tools that call the Basement API, and the skill loader.  An optional    *)
(* text argument is Nothing (None) or Some(text); a result of the API      *)
(* client is described by its type and its length, which decide `is None`  *)
(* and truthiness.                                                         *)
(***************************************************************************)
LowerMap ==
    [A |-> "a", B |-> "b", C |-> "c", D |-> "d", E |-> "e", F |-> "f", G |-> "g",
     H |-> "h", I |-> "i", J |-> "j", K |-> "k", L |-> "l", M |-> "m", N |-> "n",
     O |-> "o", P |-> "p", Q |-> "q", R |-> "r", S |-> "s", T |-> "t", U |-> "u",
     V |-> "v", W |-> "w", X |-> "x", Y |-> "y", Z |-> "z"]

\* str.lower()
lower(s) == [k \in 1..Len(s) |-> IF s[k] \in DOMAIN LowerMap THEN LowerMap[s[k]] ELSE s[k]]

Nothing == [given |-> FALSE, text |-> <<>>]

Some(text) == [given |-> TRUE, text |-> text]

\* bool(x) of an optional text
TruthyText(x) == x.given /\ x.text # <<>>

ApiNone == [type |-> "NoneType", len |-> 0]

ApiBool(b) == [type |-> "bool", len |-> IF b THEN 1 ELSE 0]

ApiList(n) == [type |-> "list", len |-> n]

ApiDict(n) == [type |-> "dict", len |-> n]

\* bool(x) of a result of the client
Truthy(x) == x.len > 0

NoOutcome == [status |-> "idle", message |-> "", skills |-> <<>>]

ToolRaise(message) == [NoOutcome EXCEPT !.status = "ToolException", !.message = message]

ToolReturn(message) == [NoOutcome EXCEPT !.status = "ok", !.message = message]

NotAuthenticated == "Not authenticated. Please run 'embient login' first."

\* a tool hands back <<outcome, calls of basement_client it made>>
list_memories(token_present, api_result) ==
    IF ~token_present THEN <<ToolRaise(NotAuthenticated), <<>> >>
    ELSE LET calls == <<[api |-> "list_memories"]>>
         IN  IF api_result = ApiNone
             THEN <<ToolRaise("Failed to fetch memories from API."), calls>>
             ELSE IF ~Truthy(api_result)
             THEN <<ToolReturn("No memories found."), calls>>
             ELSE <<ToolReturn("Found memory/memories"), calls>>

create_memory(token_present, name, content, description, api_result) ==
    IF ~token_present THEN <<ToolRaise(NotAuthenticated), <<>> >>
    ELSE LET calls == <<[api |-> "create_memory", name |-> name, content |-> content,
                         description |-> description]>>
         IN  IF api_result = ApiNone
             THEN <<ToolRaise("Failed to create memory."), calls>>
             ELSE <<ToolReturn("Memory created successfully!"), calls>>

\* the fields validated before the token is looked at
update_memory_ValidateFirst(token_present, content, name, description, api_result) ==
    IF ~(TruthyText(content) \/ TruthyText(name) \/ TruthyText(description))
    THEN <<ToolRaise("At least one field (content, name, or description) must be provided."),
           <<>> >>
    ELSE IF ~token_present THEN <<ToolRaise(NotAuthenticated), <<>> >>
    ELSE LET calls == <<[api |-> "update_memory", name |-> name, content |-> content,
                         description |-> description]>>
         IN  IF api_result = ApiNone
             THEN <<ToolRaise("Failed to update memory."), calls>>
             ELSE <<ToolReturn("Memory updated successfully."), calls>>

update_memory(token_present, content, name, description, api_result) ==
    IF ~token_present THEN <<ToolRaise(NotAuthenticated), <<>> >>
    ELSE IF ~(TruthyText(content) \/ TruthyText(name) \/ TruthyText(description))
    THEN <<ToolRaise("At least one field (content, name, or description) must be provided."),
           <<>> >>
    ELSE LET calls == <<[api |-> "update_memory", name |-> name, content |-> content,
                         description |-> description]>>
         IN  IF api_result = ApiNone
             THEN <<ToolRaise("Failed to update memory."), calls>>
             ELSE <<ToolReturn("Memory updated successfully."), calls>>

delete_memory(token_present, api_result) ==
    IF ~token_present THEN <<ToolRaise(NotAuthenticated), <<>> >>
    ELSE LET calls == <<[api |-> "delete_memory"]>>
         IN  IF ~Truthy(api_result)
             THEN <<ToolRaise("Failed to delete memory."), calls>>
             ELSE <<ToolReturn("Memory deleted successfully."), calls>>

BUY == <<"B", "U", "Y">>

SELL == <<"S", "E", "L", "L">>

MinConfidence == 0

MaxConfidence == 100

create_trading_signal(token_present, position, confidence_score, api_result) ==
    IF ~token_present THEN <<ToolRaise(NotAuthenticated), <<>> >>
    ELSE IF upper(position) \notin {BUY, SELL}
    THEN <<ToolRaise("Invalid position. Must be 'BUY' or 'SELL'."), <<>> >>
    ELSE IF ~(MinConfidence <= confidence_score /\ confidence_score <= MaxConfidence)
    THEN <<ToolRaise("Invalid confidence_score. Must be 0-100."), <<>> >>
    ELSE LET calls == <<[api |-> "create_trading_signal", position |-> upper(position),
                         confidence_score |-> confidence_score]>>
         IN  IF ~Truthy(api_result)
             THEN <<ToolRaise("Failed to create trading signal."), calls>>
             ELSE <<ToolReturn("Trading signal created successfully!"), calls>>

valid_statuses ==
    { <<"a", "c", "t", "i", "v", "e">>, <<"e", "x", "p", "i", "r", "e", "d">>,
      <<"e", "x", "e", "c", "u", "t", "e", "d">>,
      <<"c", "a", "n", "c", "e", "l", "l", "e", "d">> }

update_trading_signal(token_present, status, api_result) ==
    IF ~token_present THEN <<ToolRaise(NotAuthenticated), <<>> >>
    ELSE IF TruthyText(status) /\ lower(status.text) \notin valid_statuses
    THEN <<ToolRaise("Invalid status."), <<>> >>
    ELSE LET sent  == IF TruthyText(status) THEN Some(lower(status.text)) ELSE status
             calls == <<[api |-> "update_trading_signal", status |-> sent]>>
         IN  IF ~Truthy(api_result)
             THEN <<ToolRaise("Failed to update trading signal."), calls>>
             ELSE <<ToolReturn("Trading signal updated successfully."), calls>>

\* a skills directory that does not exist, or was not given
Missing == [exists |-> FALSE, skills |-> <<>>]

\* a directory and the skills _list_skills finds in it
Directory(skills) == [exists |-> TRUE, skills |-> skills]

\* {**skill, "source": source}
Extended(skill, source) ==
    [name |-> skill.name, description |-> skill.description, path |-> skill.path,
     source |-> source]

RECURSIVE StoreFrom(_, _, _, _)
\* all_skills after the skills of one directory are stored under their names; all_skills
\* is the list of the values of the dict in insertion order
StoreFrom(all_skills, skills, k, source) ==
    IF k > Len(skills) THEN all_skills
    ELSE LET extended_skill == Extended(skills[k], source)
             present == \E j \in 1..Len(all_skills) : all_skills[j].name = extended_skill.name
             stored  == IF present
                        THEN [j \in 1..Len(all_skills) |->
                                 IF all_skills[j].name = extended_skill.name
                                 THEN extended_skill ELSE all_skills[j]]
                        ELSE Append(all_skills, extended_skill)
         IN  StoreFrom(stored, skills, k + 1, source)

LoadSource(all_skills, directory, source) ==
    IF directory.exists THEN StoreFrom(all_skills, directory.skills, 1, source)
    ELSE all_skills

\* the project skills loaded before the user skills
list_skills_UserLast(built_in, user_skills_dir, project_skills_dir) ==
    LoadSource(LoadSource(LoadSource(<<>>, built_in, "built-in"),
                          project_skills_dir, "project"),
               user_skills_dir, "user")

list_skills(built_in, user_skills_dir, project_skills_dir) ==
    LoadSource(LoadSource(LoadSource(<<>>, built_in, "built-in"),
                          user_skills_dir, "user"),
               project_skills_dir, "project")

(***************************************************************************)
(* Inputs of the tools.                                                    *)
(***************************************************************************)
ListResults == {ApiNone, ApiList(0), ApiList(2)}

DictResults == {ApiNone, ApiDict(1)}

SignalResults == {ApiNone, ApiDict(0), ApiDict(1)}

BoolResults == {ApiNone, ApiBool(FALSE), ApiBool(TRUE)}

Texts == {Nothing, Some(<<>>), Some(<<"x">>)}

Positions ==
    { <<"b", "u", "y">>, BUY, <<"S", "e", "l", "l">>, <<"h", "o", "l", "d">>, <<>> }

Confidences == {-1, 0, 50, 100, 101}

Statuses ==
    { Nothing, Some(<<>>), Some(<<"A", "c", "t", "i", "v", "e">>),
      Some(<<"e", "x", "e", "c", "u", "t", "e", "d">>),
      Some(<<"c", "l", "o", "s", "e", "d">>), Some(<<"E", "X", "P", "I", "R", "E", "D">>) }

Skill(name, source, dir) ==
    [name |-> name, description |-> name \o " of " \o source,
     path |-> source \o "/" \o dir \o "/SKILL.md"]

\* what a directory of one source can hold: nothing, one or two skills, or two
\* directories whose SKILL.md give the same name
Directories(source) ==
    { Missing, Directory(<<>>),
      Directory(<<Skill("analysis", source, "analysis")>>),
      Directory(<<Skill("risk", source, "risk")>>),
      Directory(<<Skill("analysis", source, "analysis"), Skill("risk", source, "risk")>>),
      Directory(<<Skill("analysis", source, "analysis"),
                  Skill("analysis", source, "analysis-v2")>>) }

\* no call: every argument at its default
NoCall ==
    [tool |-> "none", token_present |-> FALSE, api_result |-> ApiNone,
     name |-> Nothing, content |-> Nothing, description |-> Nothing,
     position |-> <<>>, confidence_score |-> 0, status |-> Nothing,
     built_in |-> Missing, user_skills_dir |-> Missing, project_skills_dir |-> Missing]

ToolCalls ==
    {[NoCall EXCEPT !.tool = "list_memories", !.token_present = t, !.api_result = r] :
        t \in BOOLEAN, r \in ListResults}
    \cup
    {[NoCall EXCEPT !.tool = "create_memory", !.token_present = t, !.name = Some(<<"n">>),
                    !.content = c, !.description = d, !.api_result = r] :
        t \in BOOLEAN, c \in {Some(<<>>), Some(<<"x">>)}, d \in Texts, r \in DictResults}
    \cup
    {[NoCall EXCEPT !.tool = "update_memory", !.token_present = t, !.content = c,
                    !.name = n, !.description = d, !.api_result = r] :
        t \in BOOLEAN, c \in Texts, n \in Texts, d \in Texts, r \in DictResults}
    \cup
    {[NoCall EXCEPT !.tool = "delete_memory", !.token_present = t, !.api_result = r] :
        t \in BOOLEAN, r \in BoolResults}
    \cup
    {[NoCall EXCEPT !.tool = "create_trading_signal", !.token_present = t,
                    !.position = p, !.confidence_score = c, !.api_result = r] :
        t \in BOOLEAN, p \in Positions, c \in Confidences, r \in SignalResults}
    \cup
    {[NoCall EXCEPT !.tool = "update_trading_signal", !.token_present = t, !.status = s,
                    !.api_result = r] :
        t \in BOOLEAN, s \in Statuses, r \in SignalResults}
    \cup
    {[NoCall EXCEPT !.tool = "list_skills", !.built_in = b, !.user_skills_dir = u,
                    !.project_skills_dir = p] :
        b \in Directories("built-in"), u \in Directories("user"),
        p \in Directories("project")}

VARIABLES args, user_profile, sizing, tool, pc_sizing,
          state, stdout, console, auto_approved,
          iterations, stream_input, invocations, pc, exit_code, yielded, messages,
          fragments, outstanding, earlier,
          call, outcome, api_calls

sizing_vars == <<args, user_profile, sizing, tool, pc_sizing>>

loop_vars == <<state, stdout, console, auto_approved, iterations, stream_input,
               invocations, pc, exit_code, yielded, messages, fragments, outstanding,
               earlier>>

tools_vars == <<call, outcome, api_calls>>

vars == <<sizing_vars, loop_vars, tools_vars>>

World == [state |-> state, stdout |-> stdout, console |-> console,
          auto_approved |-> auto_approved]

SetWorld(w) ==
    /\ state' = w.state
    /\ stdout' = w.stdout
    /\ console' = w.console
    /\ auto_approved' = w.auto_approved

InitialInput == [kind |-> "message", resume |-> EmptyMap]

\* no tool of the API called
ToolsIdle ==
    /\ call = NoCall
    /\ outcome = NoOutcome
    /\ api_calls = <<>>

\* the calculator before a call
SizingIdle ==
    /\ sizing = NoResult
    /\ tool = ToolIdle
    /\ pc_sizing = "start"

InitSizing ==
    /\ \E input \in (GridArgs \X Profiles) \cup Scenarios :
          /\ args = input[1]
          /\ user_profile = input[2]
    /\ SizingIdle
    /\ state = StreamState(FALSE) /\ stdout = <<>> /\ console = <<>>
    /\ auto_approved = <<>> /\ iterations = 0 /\ stream_input = InitialInput
    /\ invocations = 0 /\ pc = "idle" /\ exit_code = -1 /\ yielded = EmptyMap
    /\ messages = 0 /\ fragments = <<>> /\ outstanding = {} /\ earlier = <<>>
    /\ ToolsIdle

\* one call of calculate_position_sizing with the profile of the context
Calculate ==
    /\ pc_sizing = "start"
    /\ \E tie_up \in BOOLEAN :
          sizing' = calculate_position_sizing(user_profile, args.entry_price,
                        args.stop_loss, args.position_size_percent, args.symbol, tie_up)
    /\ pc_sizing' = "returned"
    /\ UNCHANGED <<args, user_profile, tool, loop_vars, tools_vars>>

\* one call of the calculate_position_size tool
CallTool ==
    /\ pc_sizing = "start"
    /\ \E token_present \in BOOLEAN, fetched \in FetchedProfiles,
          tie_up \in BOOLEAN, fmt_up \in BOOLEAN :
          LET out == calculate_position_size(token_present, user_profile, fetched,
                         args.symbol, args.entry_price, args.stop_loss,
                         args.position_size_percent, tie_up, fmt_up)
          IN  /\ tool' = out[1]
              /\ user_profile' = out[2]
    /\ pc_sizing' = "tool_returned"
    /\ UNCHANGED <<args, sizing, loop_vars, tools_vars>>

NextSizing == Calculate \/ CallTool

SpecSizing == InitSizing /\ [][NextSizing]_vars

InitLoop ==
    /\ args = ScenarioA[1]
    /\ user_profile = ScenarioA[2]
    /\ SizingIdle
    /\ \E quiet \in BOOLEAN :
          /\ state = StreamState(quiet)
          /\ stdout = <<>>
          /\ console = <<>>
          /\ auto_approved = <<>>
    /\ iterations = 0
    /\ stream_input = InitialInput
    /\ invocations = 1
    /\ pc = "streaming"
    /\ exit_code = -1
    /\ yielded = EmptyMap
    /\ messages = 0
    /\ fragments = <<>>
    /\ outstanding = Opened({}, 1)
    /\ earlier = <<>>
    /\ ToolsIdle

\* the stream yields a chunk of messages, or one that is skipped; messages counts the
\* chunks of the run that left a trace, which the model bounds by budget; fragments
\* records the text the executor sent for the top-level run and the kind of pass
\* (initial or resumed) it sent it in
StreamChunk(chunks, budget) ==
    /\ pc = "streaming"
    /\ \E chunk \in chunks :
          LET w == _process_stream_chunk(chunk, World)
              texts == TextFragments(chunk)
          IN  /\ SetWorld(w)
              /\ IF w = World /\ texts = <<>> THEN UNCHANGED messages
                 ELSE messages < budget /\ messages' = messages + 1
              /\ fragments' = fragments \o
                     [k \in 1..Len(texts) |->
                         [pass |-> stream_input.kind, text |-> texts[k]]]
    /\ UNCHANGED <<tools_vars, earlier, sizing_vars, iterations, stream_input, invocations, pc, exit_code,
                   yielded, outstanding>>

StreamMessage(chunks) == StreamChunk(chunks, MaxMessages)

\* the stream yields an updates chunk with interrupts, from the top level or from a
\* subagent; yielded records the top-level ones
StreamInterrupts ==
    /\ pc = "streaming"
    /\ \E validity \in ValidityLists, namespace \in {<<>>, <<"tools:1">>} :
          LET rank       == Cardinality(DOMAIN yielded)
              interrupts == Interrupts(validity, invocations, rank)
              chunk      == Chunk(namespace, "updates", UpdatesData(interrupts))
          IN  /\ rank + Len(validity) <= MaxInterrupts
              /\ SetWorld(_process_stream_chunk(chunk, World))
              /\ yielded' = IF namespace = <<>>
                            THEN [id \in {interrupts[k].id : k \in 1..Len(interrupts)} |->
                                    CHOOSE i \in {interrupts[k] : k \in 1..Len(interrupts)} :
                                        i.id = id] @@ yielded
                            ELSE yielded
    /\ UNCHANGED <<tools_vars, earlier, sizing_vars, iterations, stream_input, invocations, pc, exit_code,
                   messages, fragments, outstanding>>

\* the stream ends after an interrupt, below the ceiling: lines 198-209, up to the
\* call of the next stream
Resume ==
    /\ pc = "streaming"
    /\ state.interrupt_occurred
    /\ ~CeilingExceeded(iterations + 1)
    /\ LET w == PrepareResume(World)
       IN  /\ SetWorld(w)
           /\ stream_input' = [kind |-> "resume", resume |-> w.state.hitl_response]
    /\ iterations' = iterations + 1
    /\ invocations' = invocations + 1
    /\ yielded' = EmptyMap
    /\ outstanding' = Opened(Drained(outstanding, invocations), invocations + 1)
    /\ UNCHANGED <<tools_vars, earlier, sizing_vars, pc, exit_code, messages, fragments>>

\* the stream ends after an interrupt, at the ceiling: lines 199-204, and the
\* RuntimeError caught by run_non_interactive
Abort ==
    /\ pc = "streaming"
    /\ state.interrupt_occurred
    /\ CeilingExceeded(iterations + 1)
    /\ iterations' = iterations + 1
    /\ pc' = "aborted"
    /\ exit_code' = ExitCode("RuntimeError")
    /\ SetWorld(Failed(World, "RuntimeError"))
    /\ outstanding' = Drained(outstanding, invocations)
    /\ UNCHANGED <<tools_vars, earlier, sizing_vars, stream_input, invocations, yielded, messages, fragments>>

\* the stream ends without an interrupt: lines 211-216 and the return 0
Finish ==
    /\ pc = "streaming"
    /\ ~state.interrupt_occurred
    /\ pc' = "completed"
    /\ exit_code' = 0
    /\ SetWorld(Complete(World))
    /\ outstanding' = Drained(outstanding, invocations)
    /\ UNCHANGED <<tools_vars, earlier, sizing_vars, iterations, stream_input, invocations, yielded, messages,
                   fragments>>

\* the executor raises in the middle of a stream
StreamRaises ==
    /\ pc = "streaming"
    /\ \E exception \in Exceptions :
          /\ exit_code' = ExitCode(exception)
          /\ SetWorld(Failed(World, exception))
    /\ pc' = "error"
    /\ outstanding' = Drained(outstanding, invocations)
    /\ UNCHANGED <<tools_vars, earlier, sizing_vars, iterations, stream_input, invocations, yielded, messages,
                   fragments>>

NextLoop ==
    \/ StreamMessage(PlainChunks)
    \/ StreamInterrupts
    \/ Resume
    \/ Abort
    \/ Finish
    \/ StreamRaises

SpecLoop == InitLoop /\ [][NextLoop]_vars

\* the loop with an executor whose streams all end: when the async for of lines
\* 172-178 is exhausted, _run_agent_loop goes on to line 198 or line 211
StreamEnds == Resume \/ Abort \/ Finish

\* what decides whether the loop goes on: approval requests, stream ends, exceptions
NextTermination ==
    \/ StreamInterrupts
    \/ Resume
    \/ Abort
    \/ Finish
    \/ StreamRaises

SpecLoopFair == InitLoop /\ [][NextTermination]_vars /\ WF_vars(StreamEnds)

(***************************************************************************)
(* The same loop with a richer stream and few resume rounds: the text and  *)
(* tool-call chunks of TranscriptChunks, at most MaxChunks of them leaving *)
(* a trace, and at most MaxRounds resumes.                                 *)
(***************************************************************************)
MaxChunks == 2

MaxRounds == 1

StreamTranscript == StreamChunk(TranscriptChunks, MaxChunks)

ResumeRound ==
    /\ iterations < MaxRounds
    /\ Resume

NextStream ==
    \/ StreamTranscript
    \/ StreamInterrupts
    \/ ResumeRound
    \/ Finish
    \/ StreamRaises

SpecStream == InitLoop /\ [][NextStream]_vars

(***************************************************************************)
(* The loop called again after a run has ended: at most MaxRuns runs, one  *)
(* after the other.  stdout and console hold what the current call wrote;  *)
(* earlier keeps, for each run that ended, how it ended and whether it     *)
(* left anything in its StreamState.                                       *)
(***************************************************************************)
MaxRuns == 2

\* the StreamState of the run before handed on to the next run
StartRun_KeepState(w, quiet) ==
    [NewWorld(quiet) EXCEPT !.state = [w.state EXCEPT !.quiet = quiet]]

\* lines 190 and 241: the state and the console of a call are constructed in it
StartRun(w, quiet) == NewWorld(quiet)

RunAgain ==
    /\ pc \in {"completed", "aborted", "error"}
    /\ Len(earlier) + 1 < MaxRuns
    /\ earlier' = Append(earlier, [outcome |-> pc,
                                   left_state |-> state # StreamState(state.quiet)])
    /\ \E quiet \in BOOLEAN : SetWorld(StartRun(World, quiet))
    /\ iterations' = 0
    /\ stream_input' = InitialInput
    /\ invocations' = 1
    /\ pc' = "streaming"
    /\ exit_code' = -1
    /\ yielded' = EmptyMap
    /\ messages' = 0
    /\ fragments' = <<>>
    /\ outstanding' = Opened(outstanding, 1)
    /\ UNCHANGED <<tools_vars, sizing_vars>>

NextRuns ==
    \/ StreamMessage(PlainChunks)
    \/ StreamInterrupts
    \/ ResumeRound
    \/ Finish
    \/ StreamRaises
    \/ RunAgain

SpecRuns == InitLoop /\ [][NextRuns]_vars

(***************************************************************************)
(* One call of a tool of the API, or of the skill loader.                  *)
(***************************************************************************)
InitTools ==
    /\ call \in ToolCalls
    /\ outcome = NoOutcome
    /\ api_calls = <<>>
    /\ args = ScenarioA[1]
    /\ user_profile = ScenarioA[2]
    /\ SizingIdle
    /\ state = StreamState(FALSE) /\ stdout = <<>> /\ console = <<>>
    /\ auto_approved = <<>> /\ iterations = 0 /\ stream_input = InitialInput
    /\ invocations = 0 /\ pc = "idle" /\ exit_code = -1 /\ yielded = EmptyMap
    /\ messages = 0 /\ fragments = <<>> /\ outstanding = {} /\ earlier = <<>>

\* the tool hands back <<outcome, calls of the client>>
ToolDone(result) ==
    /\ outcome' = result[1]
    /\ api_calls' = result[2]
    /\ UNCHANGED <<call, sizing_vars, loop_vars>>

ListMemories ==
    /\ outcome = NoOutcome /\ call.tool = "list_memories"
    /\ ToolDone(list_memories(call.token_present, call.api_result))

CreateMemory ==
    /\ outcome = NoOutcome /\ call.tool = "create_memory"
    /\ ToolDone(create_memory(call.token_present, call.name, call.content,
                              call.description, call.api_result))

UpdateMemory ==
    /\ outcome = NoOutcome /\ call.tool = "update_memory"
    /\ ToolDone(update_memory(call.token_present, call.content, call.name,
                              call.description, call.api_result))

DeleteMemory ==
    /\ outcome = NoOutcome /\ call.tool = "delete_memory"
    /\ ToolDone(delete_memory(call.token_present, call.api_result))

CreateTradingSignal ==
    /\ outcome = NoOutcome /\ call.tool = "create_trading_signal"
    /\ ToolDone(create_trading_signal(call.token_present, call.position,
                                      call.confidence_score, call.api_result))

UpdateTradingSignal ==
    /\ outcome = NoOutcome /\ call.tool = "update_trading_signal"
    /\ ToolDone(update_trading_signal(call.token_present, call.status, call.api_result))

\* the loader makes no call of the API; its outcome carries the list it returns
ListSkills ==
    /\ outcome = NoOutcome /\ call.tool = "list_skills"
    /\ ToolDone(<<[ToolReturn("") EXCEPT
                       !.skills = list_skills(call.built_in, call.user_skills_dir,
                                              call.project_skills_dir)],
                  <<>> >>)

NextTools ==
    \/ ListMemories
    \/ CreateMemory
    \/ UpdateMemory
    \/ DeleteMemory
    \/ CreateTradingSignal
    \/ UpdateTradingSignal
    \/ ListSkills

SpecTools == InitTools /\ [][NextTools]_vars

(***************************************************************************)
(* Properties of the non-interactive loop.  yielded holds the top-level    *)
(* approval requests the executor raised in the stream being consumed.     *)
(***************************************************************************)
ValidIds == {id \in DOMAIN yielded : yielded[id].valid}

MalformedIds == {id \in DOMAIN yielded : ~yielded[id].valid}

\* a step in which the executor is resumed
Resumed == invocations' = invocations + 1

\* the resume rounds performed so far
ResumeRounds == invocations - 1

\* C2: an executor that interrupts on every stream is resumed exactly
\* _MAX_HITL_ITERATIONS times; the next interrupt ends the run as aborted (a
\* RuntimeError, exit code 1) instead of a further resume
Thm_C2_CeilingEnforced ==
    /\ [](/\ ResumeRounds <= _MAX_HITL_ITERATIONS
          /\ pc = "aborted" =>
                /\ ResumeRounds = _MAX_HITL_ITERATIONS
                /\ exit_code = 1
                /\ console[Len(console)] = <<"Unexpected error", "RuntimeError">>)
    /\ [][(pc = "streaming" /\ iterations' # iterations) =>
             IF ResumeRounds < _MAX_HITL_ITERATIONS
             THEN Resumed /\ pc' = "streaming"
             ELSE ~Resumed /\ pc' = "aborted"]_vars

\* the run aborted after the fiftieth resume
Wit_C2_Aborted ==
    /\ pc = "aborted"
    /\ ResumeRounds = _MAX_HITL_ITERATIONS
    /\ state.interrupt_occurred

\* C3: the decision batch of a resume has, for every valid approval request collected
\* in the stream before it, one entry under its id with one approve decision per
\* action request and nothing else
Thm_C3_AutoApprovalComplete ==
    [][Resumed =>
          /\ stream_input'.kind = "resume"
          /\ \A id \in ValidIds :
                /\ id \in DOMAIN stream_input'.resume
                /\ stream_input'.resume[id].decisions =
                       [k \in 1..Len(yielded[id].action_requests) |->
                           [type |-> "approve", message |-> ""]]]_vars

\* P5: the batch for a single request of two actions is one entry of two approvals
Wit_C3_TwoApprovals ==
    /\ stream_input.kind = "resume"
    /\ Cardinality(DOMAIN stream_input.resume) = 1
    /\ \E id \in DOMAIN stream_input.resume :
          /\ Len(stream_input.resume[id].decisions) = 2
          /\ \A k \in 1..2 : stream_input.resume[id].decisions[k].type = "approve"

\* the batch holds only reject decisions, with a message, for id
RejectedIn(batch, id) ==
    /\ id \in DOMAIN batch
    /\ batch[id].decisions # <<>>
    /\ \A k \in 1..Len(batch[id].decisions) :
          /\ batch[id].decisions[k].type = "reject"
          /\ batch[id].decisions[k].message # ""

\* C4 as stated: when a stream that yielded a malformed approval request ends, the
\* executor is resumed with a batch that holds a reject decision for that request
Cex_C4_MalformedRejectDelivered ==
    [][(pc = "streaming" /\ MalformedIds # {} /\ (Resumed \/ pc' = "completed")) =>
          /\ Resumed
          /\ \A id \in MalformedIds : RejectedIn(stream_input'.resume, id)]_vars

\* no approve decision for id in the batch
NotApprovedIn(batch, id) ==
    id \in DOMAIN batch =>
        \A k \in 1..Len(batch[id].decisions) : batch[id].decisions[k].type # "approve"

\* C5: a malformed approval request is never pending and never approved; the decision
\* recorded for it is the reject
Thm_C5_MalformedNeverApproved ==
    /\ [](\A id \in MalformedIds :
             /\ id \notin DOMAIN state.pending_interrupts
             /\ RejectedIn(state.hitl_response, id)
             /\ NotApprovedIn(stream_input.resume, id))
    /\ [][\A id \in MalformedIds :
             /\ id \notin DOMAIN state'.pending_interrupts
             /\ NotApprovedIn(state'.hitl_response, id)
             /\ NotApprovedIn(stream_input'.resume, id)]_vars

\* a stream that raised a malformed request next to a valid one
Wit_C5_MalformedBesideValid ==
    /\ pc = "streaming"
    /\ MalformedIds # {}
    /\ ValidIds # {}
    /\ \A id \in MalformedIds : state.hitl_response[id].decisions = <<Reject>>
    /\ DOMAIN state.pending_interrupts = ValidIds

(***************************************************************************)
(* Properties of the position sizing calculator.                           *)
(***************************************************************************)
Balance == Get(user_profile, "available_balance", Zero)

MaxLeverage == Get(user_profile, "max_leverage", FromInt(DefaultMaxLeverage))

\* entry_price > 0, stop_loss > 0, entry_price # stop_loss, balance > 0, cap >= 1
ValidInput ==
    /\ Lt(Zero, args.entry_price)
    /\ Lt(Zero, args.stop_loss)
    /\ args.entry_price # args.stop_loss
    /\ Lt(Zero, Balance)
    /\ Le(One, MaxLeverage)

Returned == pc_sizing = "returned"

\* risk_amount / |entry - stop| * entry / balance, for a valid input
DerivedLeverage ==
    LET risk_amount == Mul(Balance, Div(RiskPercent(user_profile, args.position_size_percent),
                                        FromInt(Percent)))
        distance    == Abs(Sub(args.entry_price, args.stop_loss))
    IN  Div(Mul(Div(risk_amount, distance), args.entry_price), Balance)

\* C1: for every valid input the returned leverage lies in [1.0, max_leverage]
Thm_C1_LeverageWithinCap ==
    (Returned /\ ValidInput) =>
        /\ sizing.leverage # None
        /\ Le(One, sizing.leverage)
        /\ Le(sizing.leverage, MaxLeverage)

\* a valid call whose leverage lies strictly between the floor and the cap
Wit_C1_LeverageInside ==
    /\ Returned /\ ValidInput
    /\ Lt(One, sizing.leverage)
    /\ Lt(sizing.leverage, MaxLeverage)

\* C6: a non-positive entry price, stop loss or balance, or entry = stop, yields
\* (None, None, None) from calculate_position_sizing and a ToolException from the tool
InvalidInput ==
    \/ Le(args.entry_price, Zero)
    \/ Le(args.stop_loss, Zero)
    \/ Le(Balance, Zero)
    \/ args.entry_price = args.stop_loss

Thm_C6_InvalidInputNoResult ==
    /\ (Returned /\ InvalidInput) =>
           /\ sizing.capital_allocated = None
           /\ sizing.leverage = None
           /\ sizing.quantity = None
    /\ (pc_sizing = "tool_returned" /\ InvalidInput) =>
           /\ tool.status = "ToolException"
           /\ tool.quantity = None

\* the tool refusing a zero price distance for an authenticated user with a balance
Wit_C6_ZeroDistanceRejected ==
    /\ pc_sizing = "tool_returned"
    /\ args.entry_price = args.stop_loss
    /\ Lt(Zero, args.entry_price)
    /\ Lt(Zero, Balance)
    /\ tool.status = "ToolException"
    /\ tool.message = "Position sizing calculation failed"

\* C7: when the risk-derived leverage exceeds max_leverage the result is the capped
\* one: leverage = max_leverage and quantity before rounding = balance * cap / entry;
\* Scenario B gives quantity 30, leverage 3.0, capital 3000
Thm_C7_CappedResult ==
    /\ (Returned /\ ValidInput /\ Lt(MaxLeverage, DerivedLeverage)) =>
           /\ sizing.leverage = MaxLeverage
           /\ sizing.raw_quantity = Div(Mul(Balance, MaxLeverage), args.entry_price)
    /\ (Returned /\ <<args, user_profile>> = ScenarioB) =>
           /\ sizing.quantity = FromInt(30)
           /\ sizing.leverage = FromInt(3)
           /\ sizing.capital_allocated = FromInt(3000)

\* Scenario B computed
Wit_C7_ScenarioB ==
    /\ Returned
    /\ <<args, user_profile>> = ScenarioB
    /\ Lt(MaxLeverage, DerivedLeverage)
    /\ sizing.quantity = FromInt(30)

\* C8: capital_allocated = rounded quantity * entry_price
Thm_C8_CapitalFromRoundedQuantity ==
    (Returned /\ ValidInput) =>
        sizing.capital_allocated = Mul(sizing.quantity, args.entry_price)

\* a valid call whose rounding changed the quantity, so that the capital differs from
\* the notional value before rounding
Wit_C8_RoundingChangedCapital ==
    /\ Returned /\ ValidInput
    /\ sizing.quantity # sizing.raw_quantity
    /\ sizing.capital_allocated # Mul(sizing.raw_quantity, args.entry_price)

\* r is q rounded to k decimals: a multiple of 10^-k at most half a unit from q
IsRounded(q, r, k) ==
    /\ Pow10(k) % r.d = 0
    /\ Le(Abs(Sub(r, q)), Frac(1, 2 * Pow10(k)))

\* the symbols of the inputs that name a crypto asset
CryptoSymbols == {BTC_USDT, ethusd, EUR_GBP}

\* decimals the asset class of the call asks for
ExpectedDecimals ==
    IF args.symbol \in CryptoSymbols THEN 8
    ELSE IF Lt(sizing.raw_quantity, One) THEN 2 ELSE 0

\* C9: crypto symbols are rounded to 8 decimals, other symbols to 2 decimals below
\* one unit and to a whole number from one unit on
Thm_C9_RoundingByAssetClass ==
    (Returned /\ sizing.quantity # None) =>
        IsRounded(sizing.raw_quantity, sizing.quantity, ExpectedDecimals)

\* 12.7 shares of AAPL become 13
Wit_C9_WholeShares ==
    /\ Returned
    /\ args.symbol = AAPL
    /\ sizing.raw_quantity = Add(FromInt(12), Frac(7, 10))
    /\ sizing.quantity = FromInt(13)

\* the drift rounding the quantity can cause in the capital: half a unit of quantity
WithinDrift(capital, target) ==
    Le(Abs(Sub(capital, target)),
       Mul(args.entry_price, Frac(1, 2 * Pow10(ExpectedDecimals))))

\* C10 as stated: capital_allocated / balance equals the leverage up to that drift
Cex_C10_CapitalOverBalanceIsLeverage ==
    (Returned /\ ValidInput) =>
        WithinDrift(sizing.capital_allocated, Mul(sizing.leverage, Balance))

\* C10 amended: that holds when the notional value before rounding is at least the
\* balance; below it the leverage is exactly 1.0 and capital / balance is the smaller
\* ratio notional / balance, up to the drift
Thm_C10_ConsistentUnlessFloored ==
    (Returned /\ ValidInput) =>
        LET notional == Mul(sizing.raw_quantity, args.entry_price)
        IN  IF Le(Balance, notional)
            THEN WithinDrift(sizing.capital_allocated, Mul(sizing.leverage, Balance))
            ELSE /\ sizing.leverage = One
                 /\ WithinDrift(sizing.capital_allocated, notional)

\* Scenario A: capital 4000 of a balance of 10000 with leverage 1.0
Wit_C10_ScenarioA ==
    /\ Returned
    /\ <<args, user_profile>> = ScenarioA
    /\ sizing.leverage = One
    /\ sizing.capital_allocated = FromInt(4000)

\* risk_amount / |entry - stop|: the quantity the risk alone asks for
RiskQuantity ==
    LET risk_amount == Mul(Balance, Div(RiskPercent(user_profile, args.position_size_percent),
                                        FromInt(Percent)))
    IN  Div(risk_amount, Abs(Sub(args.entry_price, args.stop_loss)))

\* C11: when the risk-derived notional is below the balance the leverage is floored to
\* exactly 1.0 and the quantity stays the risk-derived one, rounded, not scaled up;
\* Scenario A gives quantity 40, leverage 1.0, capital 4000
Thm_C11_FlooredLeverageKeepsQuantity ==
    /\ (Returned /\ ValidInput /\ Lt(DerivedLeverage, One)) =>
           /\ sizing.leverage = One
           /\ sizing.raw_quantity = RiskQuantity
           /\ IsRounded(RiskQuantity, sizing.quantity, ExpectedDecimals)
           /\ Lt(Mul(sizing.raw_quantity, args.entry_price), Balance)
    /\ (Returned /\ <<args, user_profile>> = ScenarioA) =>
           /\ sizing.quantity = FromInt(40)
           /\ sizing.leverage = One
           /\ sizing.capital_allocated = FromInt(4000)

\* Scenario A computed: the notional 4000 is 0.4 of the balance, the quantity stays 40
Wit_C11_ScenarioAFloored ==
    /\ Returned
    /\ <<args, user_profile>> = ScenarioA
    /\ DerivedLeverage = Frac(2, 5)
    /\ sizing.leverage = One
    /\ sizing.quantity = FromInt(40)

\* the profile's default risk percent
ProfileDefault == Get(user_profile, "default_position_size", FromInt(DefaultPositionSize))

\* position_size_percent absent, 0 or negative
NoPercentGiven ==
    args.position_size_percent = None \/ Le(args.position_size_percent, Zero)

\* C12: a call with position_size_percent absent, 0 or negative returns what the call
\* with the profile's default_position_size returns, and a call with a percent > 0
\* uses that percent
Thm_C12_DefaultRiskPercent ==
    Returned =>
        /\ NoPercentGiven =>
               \E tie_up \in BOOLEAN :
                   sizing = calculate_position_sizing(user_profile, args.entry_price,
                                args.stop_loss, ProfileDefault, args.symbol, tie_up)
        /\ (~NoPercentGiven /\ ValidInput /\ Le(DerivedLeverage, MaxLeverage)) =>
               sizing.raw_quantity =
                   Div(Mul(Balance, Div(args.position_size_percent, FromInt(Percent))),
                       Abs(Sub(args.entry_price, args.stop_loss)))

\* a valid call with a percent of 0 and a profile default of 50 that sized a position
Wit_C12_ZeroUsesDefault ==
    /\ Returned /\ ValidInput
    /\ args.position_size_percent = Zero
    /\ ProfileDefault = FromInt(50)
    /\ Lt(Zero, sizing.quantity)

(***************************************************************************)
(* Properties of the transcript and of the run state of the loop.          *)
(***************************************************************************)
\* the texts of the fragments the executor sent for the top-level run, in order
SentTexts == [k \in 1..Len(fragments) |-> fragments[k].text]

\* what was written to stdout, the newlines the loop itself writes left out
ForwardedText == SelectSeq(stdout, LAMBDA t : t # "\n")

\* the lines of the console that announce kind
ConsoleLines(kind) == SelectSeq(console, LAMBDA line : line[1] = kind)

\* C13: an initial stream without approval requests ends the run as completed with
\* exit code 0, without a resume (one executor invocation); the text forwarded is the
\* fragments in arrival order, closed by one newline when there is any
Thm_C13_TextOnlyRunCompletes ==
    /\ [][(pc = "streaming" /\ invocations = 1 /\ yielded = EmptyMap) =>
             /\ ~Resumed
             /\ pc' \in {"streaming", "completed", "error"}
             /\ pc' = "completed" =>
                   /\ exit_code' = 0
                   /\ invocations' = 1
                   /\ iterations' = 0
                   /\ stream_input' = InitialInput]_vars
    /\ [](pc = "completed" /\ invocations = 1 =>
             /\ state.full_response = SentTexts
             /\ ForwardedText = SentTexts
             /\ ConsoleLines("Calling tool") = <<>> =>
                   stdout = IF SentTexts = <<>> THEN <<>> ELSE SentTexts \o <<"\n">>)

\* Scenario C: "Checking price... " and "Done." and no approval request
Wit_C13_ScenarioC ==
    /\ pc = "completed"
    /\ exit_code = 0
    /\ invocations = 1
    /\ yielded = EmptyMap
    /\ SentTexts = <<"Checking price... ", "Done.">>
    /\ stdout = <<"Checking price... ", "Done.", "\n">>

\* the console line of the exception that ended the run
LastLine == console[Len(console)]

\* C14: an error of the executor during a stream ends the run with exit code 1; the
\* run takes no further step: no executor invocation, no decision batch, and no
\* "Task completed"
Thm_C14_ExecutorErrorEndsRun ==
    /\ [](pc = "error" =>
             /\ LastLine[1] \in {"Error", "Unexpected error", "Interrupted"}
             /\ LastLine[1] # "Interrupted" => exit_code = 1
             /\ exit_code # 0
             /\ ConsoleLines("Task completed") = <<>>
             /\ outstanding = {})
    /\ [][pc = "streaming" /\ pc' = "error" =>
             /\ ~Resumed
             /\ stream_input' = stream_input
             /\ state' = state]_vars
    /\ [][pc # "error"]_vars

\* an OSError raised by a resumed stream
Wit_C14_ErrorInResumedPass ==
    /\ pc = "error"
    /\ LastLine = <<"Error", "OSError">>
    /\ exit_code = 1
    /\ invocations > 1
    /\ stream_input.kind = "resume"

\* the exit codes of a run in which the executor raised an execution error
ExecutionErrorCodes == {ExitCode(exception) : exception \in Exceptions \ {"KeyboardInterrupt"}}

\* C15 as stated: the exit status of a run that exceeded the iteration ceiling is
\* neither the one of success nor the one of an execution error
Cex_C15_AbortedStatusDistinct ==
    pc = "aborted" =>
        /\ exit_code # 0
        /\ exit_code \notin ExecutionErrorCodes

\* C16: each text fragment is written to stdout in the step that consumes its chunk,
\* in arrival order, and a resume clears neither the transcript nor what was
\* written: both are at every moment the fragments of all passes so far
Thm_C16_TranscriptIncremental ==
    /\ [](/\ state.full_response = SentTexts
          /\ pc \in {"streaming", "completed"} => ForwardedText = SentTexts)
    /\ [][Len(fragments') > Len(fragments) =>
             /\ pc = "streaming" /\ pc' = "streaming"
             /\ stdout' = stdout \o SubSeq(SentTexts', Len(fragments) + 1, Len(fragments'))]_vars
    /\ [][Resumed =>
             /\ state'.full_response = state.full_response
             /\ stdout' = stdout]_vars

\* one fragment sent before a resume and one after it, both in the transcript
Wit_C16_FragmentsAcrossResume ==
    /\ pc = "streaming"
    /\ Len(fragments) = 2
    /\ fragments[1] = [pass |-> "message", text |-> "Checking price... "]
    /\ fragments[2] = [pass |-> "resume", text |-> "Done."]
    /\ state.full_response = <<"Checking price... ", "Done.">>

\* the payloads a chunk can carry: messages, and updates with interrupts
Carried ==
    MessageChunks
    \cup {Chunk(<<>>, "updates", UpdatesData(Interrupts(validity, 9, 0))) :
              validity \in ValidityLists}

\* chunks of a subagent, chunks that are no 3-tuple, and summarization messages
FilteredChunks ==
    {[c EXCEPT !.namespace = <<"tools:1">>] : c \in Carried}
    \cup {[c EXCEPT !.length = n] : c \in Carried, n \in {0, 2, 4}}
    \cup {[c EXCEPT !.data.lc_source = "summarization"] :
              c \in {m \in MessageChunks : m.data.length = _MESSAGE_DATA_LENGTH}}

\* the chunks of FilteredChunks that would change the run state if they came from the
\* top level as well-formed tuples of an ordinary message
WouldSurface(w) ==
    {c \in FilteredChunks :
        _process_stream_chunk(
            [c EXCEPT !.namespace = <<>>, !.length = _STREAM_CHUNK_LENGTH,
                      !.data.lc_source = ""], w) # w}

\* C17: a chunk with a non-empty namespace, a chunk that is no 3-tuple and a
\* summarization message leave the run state, stdout and the console as they are
Thm_C17_FilteredChunksIgnored ==
    pc = "streaming" =>
        \A chunk \in FilteredChunks : _process_stream_chunk(chunk, World) = World

\* a stream in progress, with text, a tool call and a pending request behind it, in
\* which filtered chunks arrive whose top-level twins would write text, print a
\* notice, record a pending request and record a reject
Wit_C17_SubagentChunksDropped ==
    /\ pc = "streaming"
    /\ state.full_response # <<>>
    /\ state.tool_call_buffers # EmptyMap
    /\ state.pending_interrupts # EmptyMap
    /\ \E c \in WouldSurface(World) :
          c.namespace # <<>> /\ TextFragments([c EXCEPT !.namespace = <<>>]) # <<>>
    /\ \E c \in WouldSurface(World) :
          c.namespace # <<>> /\ c.stream_mode = "updates"
    /\ \E c \in WouldSurface(World) : c.length # _STREAM_CHUNK_LENGTH
    /\ \E c \in WouldSurface(World) : c.data.lc_source = "summarization"
    /\ \A c \in WouldSurface(World) : _process_stream_chunk(c, World) = World

\* C18: the pending set holds only valid requests of the pass being consumed; the
\* batch of a resume answers exactly the valid requests of the pass before it, each
\* with at least one decision, and building it empties the pending set
Thm_C18_RequestsConsumedOnce ==
    /\ [](pc = "streaming" =>
             /\ DOMAIN state.pending_interrupts = ValidIds
             /\ \A id \in DOMAIN state.pending_interrupts : id[1] = invocations)
    /\ [][Resumed =>
             /\ DOMAIN stream_input'.resume = ValidIds
             /\ \A id \in DOMAIN stream_input'.resume :
                   /\ id[1] = invocations
                   /\ stream_input'.resume[id].decisions # <<>>
                   /\ stream_input.kind = "resume" => id \notin DOMAIN stream_input.resume
             /\ state'.pending_interrupts = EmptyMap]_vars

\* the third pass is being consumed: its request is pending, and the batch that
\* started it answers the request of the second pass only
Wit_C18_SecondBatch ==
    /\ pc = "streaming"
    /\ invocations = 3
    /\ DOMAIN stream_input.resume # {}
    /\ \A id \in DOMAIN stream_input.resume : id[1] = 2
    /\ DOMAIN state.pending_interrupts # {}
    /\ \A id \in DOMAIN state.pending_interrupts : id[1] = 3

\* C19 as stated: when a resumed stream starts, the tool-call table is empty, the
\* pending set is empty, the flag is false and the batch holds only the decisions
\* built for this resume
Cex_C19_StateResetOnResume ==
    [][Resumed =>
          /\ state'.tool_call_buffers = EmptyMap
          /\ state'.pending_interrupts = EmptyMap
          /\ ~state'.interrupt_occurred
          /\ DOMAIN state'.hitl_response = ValidIds]_vars

\* C20: at most one executor stream is outstanding, the one being consumed; a resume
\* opens the next stream in the step that ends the previous one, and no stream is
\* outstanding once the run has ended
Thm_C20_SequentialAccess ==
    /\ [](/\ Cardinality(outstanding) <= 1
          /\ pc = "streaming" => outstanding = {invocations}
          /\ pc \in {"completed", "aborted", "error"} => outstanding = {})
    /\ [][Resumed =>
             /\ invocations \notin outstanding'
             /\ outstanding' = {invocations'}
             /\ state'.pending_interrupts = EmptyMap]_vars

\* the second stream is being consumed, the first is drained
Wit_C20_SecondStreamAlone ==
    /\ pc = "streaming"
    /\ invocations = 2
    /\ outstanding = {2}

\* C26 as stated: for every valid input the returned capital_allocated is at most
\* available_balance * max_leverage
Cex_C26_CapitalWithinCap ==
    (Returned /\ ValidInput) =>
        Le(sizing.capital_allocated, Mul(Balance, MaxLeverage))

\* C27 as stated: the run ends as completed only after a stream in which the
\* executor raised no approval request at all, valid or malformed
Cex_C27_CompletedOnlyWithoutRequests ==
    [][(pc = "streaming" /\ pc' = "completed") => yielded = EmptyMap]_vars

\* C29: while a stream is consumed and when it has ended, the flag is true exactly
\* when the pending set is non-empty; a resume carries a non-empty batch and the run
\* completes with nothing pending
Thm_C29_FlagIffPending ==
    /\ [](pc = "streaming" =>
             (state.interrupt_occurred <=> state.pending_interrupts # EmptyMap))
    /\ [][Resumed =>
             /\ state.pending_interrupts # EmptyMap
             /\ stream_input'.resume # EmptyMap
             /\ DOMAIN state.pending_interrupts \subseteq DOMAIN stream_input'.resume]_vars
    /\ [][(pc = "streaming" /\ pc' = "completed") =>
             /\ state.pending_interrupts = EmptyMap
             /\ ValidIds = {}]_vars

\* a stream that has raised a valid request: the flag is up and the request pending
Wit_C29_FlagWithPending ==
    /\ pc = "streaming"
    /\ invocations > 1
    /\ state.interrupt_occurred
    /\ Cardinality(DOMAIN state.pending_interrupts) = 2

\* C30 as stated: over a run there are at most as many "Calling tool" notices as
\* there are tool-call keys
Cex_C30_OneNoticePerKey ==
    Len(ConsoleLines("Calling tool")) <= Cardinality(DOMAIN state.tool_call_buffers)

\* C22: in quiet mode the console prints to stderr and stdout receives the text
\* fragments only, in order, closed by one newline when a run that wrote text
\* completes
Thm_C22_QuietStdoutIsText ==
    state.quiet =>
        /\ ConsoleStream(state.quiet) = "stderr"
        /\ stdout = IF pc = "completed" /\ SentTexts # <<>>
                    THEN SentTexts \o <<"\n">> ELSE SentTexts

\* a quiet run that wrote text, announced a tool call and completed
Wit_C22_QuietRunWithToolCall ==
    /\ state.quiet
    /\ pc = "completed"
    /\ ConsoleLines("Calling tool") # <<>>
    /\ ConsoleLines("Task completed") = <<>>
    /\ stdout = <<"Checking price... ", "\n">>

\* C25: when every stream ends the run reaches completed, aborted or error; the
\* executor is resumed at most _MAX_HITL_ITERATIONS times and invoked at most
\* _MAX_HITL_ITERATIONS + 1 times, and the step that finds the ceiling exceeded
\* builds no decision batch
Thm_C25_RunTerminates ==
    /\ <>(pc \in {"completed", "aborted", "error"})
    /\ [](/\ ResumeRounds <= _MAX_HITL_ITERATIONS
          /\ invocations <= _MAX_HITL_ITERATIONS + 1)
    /\ [][(pc = "streaming" /\ pc' = "aborted") =>
             /\ iterations' = _MAX_HITL_ITERATIONS + 1
             /\ state' = state
             /\ auto_approved' = auto_approved
             /\ stream_input' = stream_input
             /\ ~Resumed]_vars

\* the run stopped at the ceiling with the last requests unanswered
Wit_C25_StoppedBeforeBatch ==
    /\ pc = "aborted"
    /\ invocations = _MAX_HITL_ITERATIONS + 1
    /\ iterations = _MAX_HITL_ITERATIONS + 1
    /\ state.pending_interrupts # EmptyMap
    /\ DOMAIN state.pending_interrupts \cap DOMAIN state.hitl_response = {}

(***************************************************************************)
(* Properties of the tools.                                                *)
(***************************************************************************)
MemoryTools == {"list_memories", "create_memory", "update_memory", "delete_memory"}

\* the tool of the call has returned or raised
Answered == outcome.status # "idle"

Sources == <<"built-in", "user", "project">>

SourceDirectory(k) ==
    IF k = 1 THEN call.built_in
    ELSE IF k = 2 THEN call.user_skills_dir ELSE call.project_skills_dir

\* the entries a source offers under a name, tagged with the source
EntriesOf(k, name) ==
    IF ~SourceDirectory(k).exists THEN {}
    ELSE {Extended(SourceDirectory(k).skills[j], Sources[k]) :
             j \in {i \in 1..Len(SourceDirectory(k).skills) :
                       SourceDirectory(k).skills[i].name = name}}

SkillNames ==
    UNION {{SourceDirectory(k).skills[j].name : j \in 1..Len(SourceDirectory(k).skills)} :
              k \in {i \in 1..3 : SourceDirectory(i).exists}}

\* the source of highest priority that has the name
BestSource(name) ==
    CHOOSE k \in 1..3 :
        /\ EntriesOf(k, name) # {}
        /\ \A j \in (k + 1)..3 : EntriesOf(j, name) = {}

\* C24: list_skills has exactly one entry per skill name of the three sources, and the
\* entry of a name is one of the source of highest priority that has it (project over
\* user over built-in), tagged with that source; missing and empty directories give
\* nothing
Thm_C24_SkillsMergedByPriority ==
    (Answered /\ call.tool = "list_skills") =>
        LET result == outcome.skills
        IN  /\ {result[k].name : k \in 1..Len(result)} = SkillNames
            /\ Len(result) = Cardinality(SkillNames)
            /\ \A k \in 1..Len(result) :
                  result[k] \in EntriesOf(BestSource(result[k].name), result[k].name)

\* a name of all three sources beside a name of the built-in skills alone, the user
\* directory being given and the project directory holding one skill
Wit_C24_ProjectOverridesAll ==
    /\ Answered /\ call.tool = "list_skills"
    /\ Len(outcome.skills) = 2
    /\ \E k \in 1..2 :
          /\ outcome.skills[k].name = "analysis"
          /\ outcome.skills[k].source = "project"
          /\ EntriesOf(1, "analysis") # {} /\ EntriesOf(2, "analysis") # {}
    /\ \E k \in 1..2 :
          /\ outcome.skills[k].name = "risk"
          /\ outcome.skills[k].source = "built-in"

\* C28: create_trading_signal raises a ToolException without calling the API when the
\* token is missing, the upper-cased position is not BUY or SELL, or confidence_score
\* is outside [0, 100]; update_trading_signal does so for a status that, lower-cased,
\* is not active, expired, executed or cancelled
Cex_C28_InvalidSignalRejected ==
    /\ (Answered /\ call.tool = "create_trading_signal"
           /\ (\/ ~call.token_present
               \/ upper(call.position) \notin {BUY, SELL}
               \/ call.confidence_score < MinConfidence
               \/ call.confidence_score > MaxConfidence)) =>
          (outcome.status = "ToolException" /\ api_calls = <<>>)
    /\ (Answered /\ call.tool = "update_trading_signal"
           /\ call.status.given /\ lower(call.status.text) \notin valid_statuses) =>
          (outcome.status = "ToolException" /\ api_calls = <<>>)

(***************************************************************************)
(* Properties of runs that follow one another.                             *)
(***************************************************************************)
\* a step that starts a run after another has ended
RunStarted == Len(earlier') = Len(earlier) + 1

\* C21: a run after another starts from a new StreamState (empty transcript, empty
\* tool-call table, no pending request, empty decision batch, flag false), an iteration
\* count of zero and the input of its own task; its transcript is the text sent in it,
\* and in its first stream the pending requests and the decisions are those of the
\* requests raised in that stream
Thm_C21_RunsIndependent ==
    /\ [][RunStarted =>
             /\ state' = StreamState(state'.quiet)
             /\ iterations' = 0
             /\ stream_input' = InitialInput
             /\ pc' = "streaming"]_vars
    /\ [](pc = "streaming" =>
             /\ state.full_response = SentTexts
             /\ invocations = 1 =>
                   /\ DOMAIN state.pending_interrupts = ValidIds
                   /\ DOMAIN state.hitl_response = MalformedIds
                   /\ state.interrupt_occurred <=> ValidIds # {})

\* the second run completed without any text, after a first run that failed and left a
\* transcript and unanswered requests in its own state
Wit_C21_SecondRunClean ==
    /\ Len(earlier) = 1
    /\ earlier[1].left_state
    /\ earlier[1].outcome = "error"
    /\ pc = "completed"
    /\ state = StreamState(state.quiet)
    /\ stdout = <<>>

====
